---------------------------- MODULE Spec2Model ----------------------------
(***************************************************************************)
(* A model of the swearfilter package (src/swearfilter.go): the leet-speak *)
(* normalizer, the Unicode folder, the whitespace stages, the matcher and  *)
(* the token set guarded by a sync.RWMutex.                                *)
(*                                                                         *)
(* A text is a sequence of characters.  A character is a string: an ASCII  *)
(* character stands for itself, and the others carry a name:               *)
(*   "TAB" U+0009   "LF" U+000A    "NBSP" U+00A0 (category Zs)             *)
(*   "ZWSP" U+200B  "EURO" U+20AC  "NUL" U+0000                            *)
(*   "E_GRAVE" U+00E8 (e with grave), "GRAVE" U+0300 (combining, Mn)       *)
(*   "HALFNOTE" U+1D15E, which decomposes canonically into                 *)
(*   "NOTEHEAD" U+1D157 and "STEM" U+1D165 (category Mc) and is excluded   *)
(*   from recomposition.                                                   *)
(***************************************************************************)
EXTENDS Integers, Sequences, FiniteSets

\* ------------------------------------------------------------------ bounds

\* Longest text handed to Check by the pipeline specifications.
MaxLen == 3

\* Longest text of the whitespace specification.
MaxWsLen == 4

\* Longest text of the leet specification.
MaxLeetLen == 2

\* Number of words one Add or Delete call of the concurrent specification takes.
MaxArgs == 2

\* ----------------------------------------------------------- string helpers

\* strings.ReplaceAll(s, old, new) for a non-empty old: leftmost,
\* non-overlapping occurrences.
RECURSIVE ReplaceAll(_, _, _)
ReplaceAll(s, old, new) ==
    IF Len(s) < Len(old) THEN s
    ELSE IF SubSeq(s, 1, Len(old)) = old
         THEN new \o ReplaceAll(SubSeq(s, Len(old) + 1, Len(s)), old, new)
         ELSE <<Head(s)>> \o ReplaceAll(Tail(s), old, new)

\* strings.Contains(s, sub); the empty string is contained in every string.
Contains(s, sub) ==
    \E i \in 0..(Len(s) - Len(sub)) : SubSeq(s, i + 1, i + Len(sub)) = sub

\* strings.Join(strs, sep)
RECURSIVE Join(_, _)
Join(strs, sep) ==
    IF Len(strs) = 0 THEN <<>>
    ELSE IF Len(strs) = 1 THEN strs[1]
    ELSE strs[1] \o sep \o Join(Tail(strs), sep)

UpperLetters ==
    <<"A","B","C","D","E","F","G","H","I","J","K","L","M",
      "N","O","P","Q","R","S","T","U","V","W","X","Y","Z">>

LowerLetters ==
    <<"a","b","c","d","e","f","g","h","i","j","k","l","m",
      "n","o","p","q","r","s","t","u","v","w","x","y","z">>

LowerChar(c) ==
    IF \E k \in 1..Len(UpperLetters) : UpperLetters[k] = c
    THEN LowerLetters[CHOOSE k \in 1..Len(UpperLetters) : UpperLetters[k] = c]
    ELSE c

\* strings.ToLower
ToLower(s) == [k \in 1..Len(s) |-> LowerChar(s[k])]

\* ------------------------------------------------------ substitution tables

\* Each entry is <<pattern, replacement>>, in the order of the map literal.
multiCharLeet ==
    << << <<"v","v">>,            <<"w">> >>,
       << <<"u","u">>,            <<"w">> >>,
       << <<"\\","/","\\","/">>,  <<"w">> >>,
       << <<">","<">>,            <<"x">> >>,
       << <<"1","<">>,            <<"k">> >>,
       << <<"|","<">>,            <<"k">> >>,
       << <<"(",")">>,            <<"o">> >>,
       << <<"[","]">>,            <<"o">> >>,
       << <<"p","h">>,            <<"f">> >> >>

leetChars ==
    << << <<"4">>,    <<"a">> >>,
       << <<"@">>,    <<"a">> >>,
       << <<"8">>,    <<"b">> >>,
       << <<"(">>,    <<"c">> >>,
       << <<"<">>,    <<"c">> >>,
       << <<"[">>,    <<"c">> >>,
       << <<"3">>,    <<"e">> >>,
       << <<"EURO">>, <<"e">> >>,
       << <<"6">>,    <<"g">> >>,
       << <<"9">>,    <<"g">> >>,
       << <<"#">>,    <<"h">> >>,
       << <<"j">>,    <<"i">> >>,
       << <<"0">>,    <<"o">> >>,
       << <<"5">>,    <<"s">> >>,
       << <<"$">>,    <<"s">> >>,
       << <<"7">>,    <<"t">> >>,
       << <<"+">>,    <<"t">> >>,
       << <<"v">>,    <<"u">> >>,
       << <<"2">>,    <<"z">> >> >>

\* Each entry is <<pattern, candidates>>.
ambiguousLeetMap ==
    << << <<"!">>, << <<"i">>, <<"l">> >> >>,
       << <<"|">>, << <<"i">>, <<"l">> >> >>,
       << <<"1">>, << <<"i">>, <<"l">> >> >>,
       << <<"]">>, << <<"i">>, <<"l">> >> >>,
       << <<"}">>, << <<"i">>, <<"l">> >> >> >>

\* ------------------------------------------------- map iteration orders
\* Go ranges over a map in an order the runtime picks anew for every loop.
\* An order is a permutation of the indices of the table.

\* The orders the model ranges in: the rotations of the literal's order,
\* forwards and backwards.  They realise every relative order of any three
\* entries of a table.
Rotation(n, r, back) ==
    [k \in 1..n |-> IF back THEN ((r + n - k) % n) + 1 ELSE ((r + k - 1) % n) + 1]

Rotations(n) == { Rotation(n, r, b) : r \in 0..(n - 1), b \in BOOLEAN }

MultiOrders == Rotations(Len(multiCharLeet))

SingleOrders == Rotations(Len(leetChars))

AmbiguousOrders == Rotations(Len(ambiguousLeetMap))

\* --------------------------------------------------- normalizeLeetSpeak

\* for leet, normal := range table { normalized = ReplaceAll(normalized, leet, normal) }
\* from the k-th entry of the iteration order on.  The bound variable
\* assigned holds the value of one assignment to normalized.
RECURSIVE RangeReplace(_, _, _, _)
RangeReplace(normalized, table, order, k) ==
    IF k > Len(order) THEN normalized
    ELSE CHOOSE result \in
             { RangeReplace(assigned, table, order, k + 1) :
                 assigned \in { ReplaceAll(normalized, table[order[k]][1],
                                           table[order[k]][2]) } } : TRUE

\* The loop over multiCharLeet (lines 159-161).
ReplaceMulti(normalized, order) == RangeReplace(normalized, multiCharLeet, order, 1)

\* The loop over leetChars (lines 164-166).
ReplaceSingle(normalized, order) == RangeReplace(normalized, leetChars, order, 1)

\* The inner loop over one entry's possibilities (lines 171-174).
Interpretations(normalized, entry) ==
    [c \in 1..Len(entry[2]) |-> ReplaceAll(normalized, entry[1], entry[2][c])]

\* The loop over ambiguousLeetMap (lines 168-176): possibleStrings.
RECURSIVE PossibleStrings(_, _, _)
PossibleStrings(normalized, order, k) ==
    IF k > Len(order) THEN <<>>
    ELSE (IF Contains(normalized, ambiguousLeetMap[order[k]][1])
          THEN Interpretations(normalized, ambiguousLeetMap[order[k]])
          ELSE <<>>)
         \o PossibleStrings(normalized, order, k + 1)

\* Lines 168-184: the joined interpretations, or the string unchanged.
ExpandAmbiguous(normalized, order) ==
    LET possibleStrings == PossibleStrings(normalized, order, 1)
    IN  IF Len(possibleStrings) > 0 THEN Join(possibleStrings, <<" ">>) ELSE normalized

normalizeLeetSpeak(message, om, os, oa) ==
    ExpandAmbiguous(ReplaceSingle(ReplaceMulti(ToLower(message), om), os), oa)

\* ------------------------------------------------------ the Unicode folder

\* The length of a character's UTF-8 encoding.
ByteLen(c) ==
    CASE c \in {"E_GRAVE", "GRAVE", "NBSP"} -> 2
      [] c \in {"ZWSP", "EURO"} -> 3
      [] c \in {"HALFNOTE", "NOTEHEAD", "STEM"} -> 4
      [] OTHER -> 1

RECURSIVE Bytes(_)
Bytes(s) == IF Len(s) = 0 THEN 0 ELSE ByteLen(Head(s)) + Bytes(Tail(s))

\* norm.NFD, then RemoveFunc(unicode.Is(unicode.Mn)), then norm.NFC, of one
\* character.  No two characters of the model compose with each other.
FoldChar(c) ==
    CASE c = "E_GRAVE" -> <<"e">>
      [] c = "GRAVE" -> <<>>
      [] c = "HALFNOTE" -> <<"NOTEHEAD", "STEM">>
      [] OTHER -> <<c>>

\* What normalize.Transform writes into its destination.
RECURSIVE Transformed(_)
Transformed(s) == IF Len(s) = 0 THEN <<>> ELSE FoldChar(Head(s)) \o Transformed(Tail(s))

\* Transform fails with ErrShortDst when the output does not fit the
\* destination, which is len(message) bytes long (line 97).
TransformErr(message) == Bytes(Transformed(message)) > Bytes(message)

\* string(bytes) (line 105): the whole destination buffer, the bytes
\* Transform did not write being zero.
Folded(message) ==
    Transformed(message)
        \o [k \in 1..(Bytes(message) - Bytes(Transformed(message))) |-> "NUL"]

\* --------------------------------------------------- the whitespace stages

\* strings.Replace(message, "\t", " ", -1)
TabsToSpaces(message) == ReplaceAll(message, <<"TAB">>, <<" ">>)

\* strings.Replace(message, "\u200b", "", -1)
StripZeroWidth(message) == ReplaceAll(message, <<"ZWSP">>, <<>>)

\* The class [\s\p{Zs}] of the two regular expressions, over the model's
\* characters: \s is [\t\n\f\r ], Zs holds U+0020 and U+00A0.
IsWhitespace(c) == c \in {" ", "TAB", "LF", "NBSP"}

RECURSIVE DropLeading(_)
DropLeading(s) ==
    IF Len(s) > 0 /\ IsWhitespace(Head(s)) THEN DropLeading(Tail(s)) ELSE s

RECURSIVE DropTrailing(_)
DropTrailing(s) ==
    IF Len(s) > 0 /\ IsWhitespace(s[Len(s)])
    THEN DropTrailing(SubSeq(s, 1, Len(s) - 1)) ELSE s

\* ReplaceAllString of ^[\s\p{Zs}]+|[\s\p{Zs}]+$ by "" (lines 119-120).
regexLeadCloseWhitepace(message) == DropTrailing(DropLeading(message))

\* The length of the run of whitespace s starts with.
RECURSIVE RunLength(_)
RunLength(s) ==
    IF Len(s) > 0 /\ IsWhitespace(Head(s)) THEN 1 + RunLength(Tail(s)) ELSE 0

\* The replacement by one space, as the comment of line 117 has it.
RECURSIVE CollapseToOneSpace(_)
CollapseToOneSpace(message) ==
    IF Len(message) = 0 THEN <<>>
    ELSE LET n == RunLength(message)
         IN  IF n >= 2 THEN <<" ">> \o CollapseToOneSpace(SubSeq(message, n + 1, Len(message)))
             ELSE <<Head(message)>> \o CollapseToOneSpace(Tail(message))

\* ReplaceAllString of [\s\p{Zs}]{2,} by "" (lines 121-122): the matches
\* are greedy, leftmost and non-overlapping.
RECURSIVE regexInsideWhitespace(_)
regexInsideWhitespace(message) ==
    IF Len(message) = 0 THEN <<>>
    ELSE LET n == RunLength(message)
         IN  IF n >= 2 THEN regexInsideWhitespace(SubSeq(message, n + 1, Len(message)))
             ELSE <<Head(message)>> \o regexInsideWhitespace(Tail(message))

\* Lines 118-123.
StripMultiWhitespace(message) == regexInsideWhitespace(regexLeadCloseWhitepace(message))

\* ------------------------------------------------------------ the matcher

\* The space sentinel.
Sentinel == <<" ">>

\* The iteration without the continue of line 135.
TrippedTwice(message, swear, spacedBypass) ==
    IF swear = Sentinel THEN <<>>
    ELSE (IF Contains(message, swear) THEN <<swear>> ELSE <<>>)
         \o (IF spacedBypass /\ Contains(ReplaceAll(message, <<" ">>, <<>>), swear)
             THEN <<swear>> ELSE <<>>)

\* One iteration of the loop over BadWords (lines 127-144): what it appends.
Tripped(message, swear, spacedBypass) ==
    IF swear = Sentinel THEN <<>>
    ELSE IF Contains(message, swear) THEN <<swear>>
    ELSE IF spacedBypass /\ Contains(ReplaceAll(message, <<" ">>, <<>>), swear)
         THEN <<swear>>
         ELSE <<>>

\* The loop over BadWords, in the order the range visits them.
RECURSIVE RangeBadWords(_, _, _)
RangeBadWords(message, order, spacedBypass) ==
    IF Len(order) = 0 THEN <<>>
    ELSE Tripped(message, Head(order), spacedBypass)
         \o RangeBadWords(message, Tail(order), spacedBypass)

\* The matcher without the test of the empty message of line 146.
MatchSentinelAlways(message, order, spacedBypass) ==
    RangeBadWords(message, order, spacedBypass)
        \o (IF \E k \in 1..Len(order) : order[k] = Sentinel THEN <<Sentinel>> ELSE <<>>)

\* Lines 125-150: trippedWords.
Match(message, order, spacedBypass) ==
    RangeBadWords(message, order, spacedBypass)
        \o (IF (\E k \in 1..Len(order) : order[k] = Sentinel) /\ message = <<>>
            THEN <<Sentinel>> ELSE <<>>)

\* The orders in which a range over the set S may visit it.
RangeOrders(S) ==
    { f \in [1..Cardinality(S) -> S] : \A a, b \in 1..Cardinality(S) : f[a] = f[b] => a = b }


\* Lines 107-123: the tab, zero-width and whitespace stages, each under its flag.
SanitizeWhitespace(message, c) ==
    LET tabbed == IF c.DisableSpacedTab THEN message ELSE TabsToSpaces(message)
        bare == IF c.DisableZeroWidthStripping THEN tabbed ELSE StripZeroWidth(tabbed)
    IN  IF c.DisableMultiWhitespaceStripping THEN bare ELSE StripMultiWhitespace(bare)

\* ------------------------------------------------------------- the filter

\* The callers of the concurrent specification.
NumProcs == 2

Procs == 1..NumProcs

\* No goroutine.
None == 0

DefaultConfig ==
    [ DisableNormalize |-> FALSE, DisableSpacedTab |-> FALSE,
      DisableMultiWhitespaceStripping |-> FALSE, DisableZeroWidthStripping |-> FALSE,
      EnableSpacedBypass |-> FALSE, DisableLeetSpeak |-> FALSE ]

\* The settings an owner can give the exported fields.
Configs ==
    [ DisableNormalize : BOOLEAN, DisableSpacedTab : BOOLEAN,
      DisableMultiWhitespaceStripping : BOOLEAN, DisableZeroWidthStripping : BOOLEAN,
      EnableSpacedBypass : BOOLEAN, DisableLeetSpeak : BOOLEAN ]

\* NewSwearFilter(enableSpacedBypass, uhohwords...): the fields of the filter.
NewSwearFilter(enableSpacedBypass, uhohwords) ==
    [ config |-> [DefaultConfig EXCEPT !.EnableSpacedBypass = enableSpacedBypass],
      BadWords |-> { uhohwords[k] : k \in 1..Len(uhohwords) } ]

\* filter.BadWords[word] = struct{}{}
Insert(words, word) == words \cup {word}

\* A delete that leaves the word in.
RemoveNothing(words, word) == words

\* delete(filter.BadWords, word)
Remove(words, word) == words \ {word}

\* The sequences over S of length lo..hi.
SeqsOf(S, lo, hi) == UNION { [1..n -> S] : n \in lo..hi }

\* Check, lines 90-123, as a function of its text, the option fields and the
\* orders of the three ranges of normalizeLeetSpeak: whether the fold fails,
\* and the message the matcher gets.
CheckMessage(msg, c, om, os, oa) ==
    LET lowered == ToLower(msg)
        leeted == IF c.DisableLeetSpeak THEN lowered
                  ELSE normalizeLeetSpeak(lowered, om, os, oa)
    IN  [ err |-> ~c.DisableNormalize /\ TransformErr(leeted),
          message |-> SanitizeWhitespace(
                          IF c.DisableNormalize THEN leeted ELSE Folded(leeted), c) ]

\* Check, lines 82-151: the set of the tokens it returns (none with an error).
CheckTripped(msg, c, words, om, os, oa) ==
    IF words = {} THEN {}
    ELSE LET r == CheckMessage(msg, c, om, os, oa)
         IN  IF r.err THEN {}
             ELSE LET tripped == Match(r.message, CHOOSE order \in RangeOrders(words) : TRUE,
                                       c.EnableSpacedBypass)
                  IN  { tripped[k] : k \in 1..Len(tripped) }

VARIABLES
    BadWords,   \* filter.BadWords
    cfg,        \* the exported option fields of the filter
    mutex,      \* filter.mutex
    pc,         \* each caller's position
    op,         \* the method each caller is in
    args,       \* its argument: msg of Check, badWords of Add and Delete
    idx,        \* the index of the loop over badWords
    message,    \* the local message of Check, normalized of normalizeLeetSpeak
    ret,        \* trippedWords of Check, activeWords of Words
    err,        \* whether Check returns an error
    passes,     \* how many times normalizeLeetSpeak ran on the caller's text
    previous,   \* what the run before the last returned
    completed,  \* history: the token set the completed Add and Delete calls make
    snapshot    \* history: the token set when the caller got its read lock

vars == <<BadWords, cfg, mutex, pc, op, args, idx, message, ret, err,
          passes, previous, completed, snapshot>>

locals == <<args, idx, message, ret, err, passes, previous>>

\* ---------------------------------------------------------- sync.RWMutex
\* writer: the goroutine that called Lock and has not yet called Unlock;
\* locked: whether it holds the lock; readers: the goroutines holding a read
\* lock; waiting: the goroutines whose RLock blocks behind the writer.

FreeMutex == [writer |-> None, locked |-> FALSE, readers |-> {}, waiting |-> {}]

\* A read lock that does not wait for the writer.
RLockAdmitsAlways == TRUE

\* RLock returns at once unless a writer holds or awaits the lock.
RLockAdmits == mutex.writer = None

\* Lock returns once no reader holds the lock.
LockAdmits == mutex.readers = {}

\* A return that leaves the read lock held.
ReturnWithoutRUnlock == "done"

\* Where a method goes when it returns under defer mutex.RUnlock().
DeferRUnlock == "runlock"

\* Where a method goes when it returns under defer mutex.Unlock().
DeferUnlock == "unlock"

\* ------------------------------------------------------------- the calls

Call(p, method, argument, first) ==
    /\ pc[p] = "idle"
    /\ op' = [op EXCEPT ![p] = method]
    /\ args' = [args EXCEPT ![p] = argument]
    /\ pc' = [pc EXCEPT ![p] = first]
    /\ UNCHANGED <<BadWords, cfg, mutex, idx, message, ret, err, passes, previous,
                   completed, snapshot>>

\* filter.mutex.RLock() (lines 83, 213)
RLock(p) ==
    /\ pc[p] = "rlock"
    /\ IF RLockAdmits
       THEN /\ mutex' = [mutex EXCEPT !.readers = @ \cup {p}]
            /\ snapshot' = [snapshot EXCEPT ![p] = BadWords]
            /\ pc' = [pc EXCEPT ![p] = IF op[p] = "Check" THEN "check_empty" ELSE "words_range"]
       ELSE /\ mutex' = [mutex EXCEPT !.waiting = @ \cup {p}]
            /\ pc' = [pc EXCEPT ![p] = "rwait"]
            /\ UNCHANGED snapshot
    /\ UNCHANGED <<BadWords, cfg, op, completed>> /\ UNCHANGED locals

\* A blocked RLock returns after the writer's Unlock has let it in.
RLockResume(p) ==
    /\ pc[p] = "rwait"
    /\ p \in mutex.readers
    /\ pc' = [pc EXCEPT ![p] = IF op[p] = "Check" THEN "check_empty" ELSE "words_range"]
    /\ UNCHANGED <<BadWords, cfg, mutex, op, completed, snapshot>> /\ UNCHANGED locals

\* filter.mutex.RUnlock(), deferred (lines 84, 214)
RUnlock(p) ==
    /\ pc[p] = "runlock"
    /\ mutex' = [mutex EXCEPT !.readers = @ \ {p}]
    /\ pc' = [pc EXCEPT ![p] = "done"]
    /\ UNCHANGED <<BadWords, cfg, op, completed, snapshot>> /\ UNCHANGED locals

\* filter.mutex.Lock() (lines 189, 203): the caller becomes the writer, which
\* keeps later readers out,
LockStart(p) ==
    /\ pc[p] = "lock"
    /\ mutex.writer = None
    /\ mutex' = [mutex EXCEPT !.writer = p]
    /\ pc' = [pc EXCEPT ![p] = "lockwait"]
    /\ UNCHANGED <<BadWords, cfg, op, completed, snapshot>> /\ UNCHANGED locals

\* and returns when the readers have left.
LockAcquire(p) ==
    /\ pc[p] = "lockwait"
    /\ LockAdmits
    /\ mutex' = [mutex EXCEPT !.locked = TRUE]
    /\ idx' = [idx EXCEPT ![p] = 1]
    /\ pc' = [pc EXCEPT ![p] = IF op[p] = "Add" THEN "add_loop" ELSE "delete_loop"]
    /\ UNCHANGED <<BadWords, cfg, op, args, message, ret, err, passes, previous,
                   completed, snapshot>>

\* The token set a completed call of the method makes of the set S.
Effect(method, badWords, S) ==
    LET given == { badWords[k] : k \in 1..Len(badWords) }
    IN  IF method = "Add" THEN S \cup given ELSE S \ given

\* filter.mutex.Unlock(), deferred (lines 190, 204): the blocked readers get
\* their read locks.  The call is complete.
Unlock(p) ==
    /\ pc[p] = "unlock"
    /\ mutex' = [writer |-> None, locked |-> FALSE,
                 readers |-> mutex.readers \cup mutex.waiting, waiting |-> {}]
    /\ snapshot' = [q \in Procs |-> IF q \in mutex.waiting THEN BadWords ELSE snapshot[q]]
    /\ completed' = Effect(op[p], args[p], completed)
    /\ pc' = [pc EXCEPT ![p] = "done"]
    /\ UNCHANGED <<BadWords, cfg, op>> /\ UNCHANGED locals

\* The caller has its results and goes on to its next call.
Return(p) ==
    /\ pc[p] = "done"
    /\ pc' = [pc EXCEPT ![p] = "idle"]
    /\ op' = [op EXCEPT ![p] = "none"]
    /\ args' = [args EXCEPT ![p] = <<>>]
    /\ idx' = [idx EXCEPT ![p] = 0]
    /\ message' = [message EXCEPT ![p] = <<>>]
    /\ ret' = [ret EXCEPT ![p] = <<>>]
    /\ err' = [err EXCEPT ![p] = FALSE]
    /\ passes' = [passes EXCEPT ![p] = 0]
    /\ previous' = [previous EXCEPT ![p] = <<>>]
    /\ snapshot' = [snapshot EXCEPT ![p] = {}]
    /\ UNCHANGED <<BadWords, cfg, mutex, completed>>

\* ------------------------------------------------------------------ Check

\* Lines 86-94: the early return on an empty token set, else the lower-cased
\* message and the choice of the leet stage.
CheckEmpty(p) ==
    /\ pc[p] = "check_empty"
    /\ IF BadWords = {}
       THEN /\ pc' = [pc EXCEPT ![p] = DeferRUnlock]
            /\ UNCHANGED message
       ELSE /\ message' = [message EXCEPT ![p] = ToLower(args[p])]
            /\ pc' = [pc EXCEPT ![p] = IF cfg.DisableLeetSpeak THEN "fold" ELSE "leet_multi"]
    /\ UNCHANGED <<BadWords, cfg, mutex, op, args, idx, ret, err, passes, previous,
                   completed, snapshot>>

\* normalizeLeetSpeak, lines 155-161, in one of the orders of the range.
LeetMulti(p) ==
    /\ pc[p] = "leet_multi"
    /\ \E order \in MultiOrders :
         message' = [message EXCEPT ![p] = ReplaceMulti(ToLower(message[p]), order)]
    /\ pc' = [pc EXCEPT ![p] = "leet_single"]
    /\ UNCHANGED <<BadWords, cfg, mutex, op, args, idx, ret, err, passes, previous,
                   completed, snapshot>>

\* normalizeLeetSpeak, lines 164-166.
LeetSingle(p) ==
    /\ pc[p] = "leet_single"
    /\ \E order \in SingleOrders :
         message' = [message EXCEPT ![p] = ReplaceSingle(message[p], order)]
    /\ pc' = [pc EXCEPT ![p] = "leet_ambiguous"]
    /\ UNCHANGED <<BadWords, cfg, mutex, op, args, idx, ret, err, passes, previous,
                   completed, snapshot>>

\* normalizeLeetSpeak, lines 168-184.
LeetAmbiguous(p) ==
    /\ pc[p] = "leet_ambiguous"
    /\ \E order \in AmbiguousOrders :
         message' = [message EXCEPT ![p] = ExpandAmbiguous(message[p], order)]
    /\ passes' = [passes EXCEPT ![p] = @ + 1]
    /\ pc' = [pc EXCEPT ![p] = IF op[p] = "Check" THEN "fold" ELSE "leet_done"]
    /\ UNCHANGED <<BadWords, cfg, mutex, op, args, idx, ret, err, previous,
                   completed, snapshot>>

\* Lines 96-106: the fold, or the return of its error.
Fold(p) ==
    /\ pc[p] = "fold"
    /\ IF cfg.DisableNormalize
       THEN /\ pc' = [pc EXCEPT ![p] = "tabs"]
            /\ UNCHANGED <<message, err>>
       ELSE IF TransformErr(message[p])
       THEN /\ err' = [err EXCEPT ![p] = TRUE]
            /\ pc' = [pc EXCEPT ![p] = DeferRUnlock]
            /\ UNCHANGED message
       ELSE /\ message' = [message EXCEPT ![p] = Folded(message[p])]
            /\ pc' = [pc EXCEPT ![p] = "tabs"]
            /\ UNCHANGED err
    /\ UNCHANGED <<BadWords, cfg, mutex, op, args, idx, ret, passes, previous,
                   completed, snapshot>>

\* Lines 107-110.
Tabs(p) ==
    /\ pc[p] = "tabs"
    /\ message' = [message EXCEPT ![p] =
                      IF cfg.DisableSpacedTab THEN @ ELSE TabsToSpaces(@)]
    /\ pc' = [pc EXCEPT ![p] = "zero_width"]
    /\ UNCHANGED <<BadWords, cfg, mutex, op, args, idx, ret, err, passes, previous,
                   completed, snapshot>>

\* Lines 112-115.
ZeroWidth(p) ==
    /\ pc[p] = "zero_width"
    /\ message' = [message EXCEPT ![p] =
                      IF cfg.DisableZeroWidthStripping THEN @ ELSE StripZeroWidth(@)]
    /\ pc' = [pc EXCEPT ![p] = "whitespace"]
    /\ UNCHANGED <<BadWords, cfg, mutex, op, args, idx, ret, err, passes, previous,
                   completed, snapshot>>

\* Lines 117-123.
Whitespace(p) ==
    /\ pc[p] = "whitespace"
    /\ message' = [message EXCEPT ![p] =
                      IF cfg.DisableMultiWhitespaceStripping THEN @
                      ELSE StripMultiWhitespace(@)]
    /\ pc' = [pc EXCEPT ![p] = "match"]
    /\ UNCHANGED <<BadWords, cfg, mutex, op, args, idx, ret, err, passes, previous,
                   completed, snapshot>>

\* Lines 125-150, in one of the orders of the range over BadWords.
MatchWords(p) ==
    /\ pc[p] = "match"
    /\ \E order \in RangeOrders(BadWords) :
         ret' = [ret EXCEPT ![p] = Match(message[p], order, cfg.EnableSpacedBypass)]
    /\ pc' = [pc EXCEPT ![p] = DeferRUnlock]
    /\ UNCHANGED <<BadWords, cfg, mutex, op, args, idx, message, err, passes, previous,
                   completed, snapshot>>

\* --------------------------------------------------- Add, Delete, Words

\* Lines 196-198: the range over badWords either has a next word, which the
\* body inserts, or is over (at once when Add is called with no word) and the
\* method returns.
AddWord(p) ==
    /\ pc[p] = "add_loop"
    /\ IF idx[p] <= Len(args[p])
       THEN /\ BadWords' = Insert(BadWords, args[p][idx[p]])
            /\ idx' = [idx EXCEPT ![p] = @ + 1]
            /\ UNCHANGED pc
       ELSE /\ pc' = [pc EXCEPT ![p] = DeferUnlock]
            /\ UNCHANGED <<BadWords, idx>>
    /\ UNCHANGED <<cfg, mutex, op, args, message, ret, err, passes, previous,
                   completed, snapshot>>

\* Lines 206-208: the range over badWords either has a next word, which the
\* body deletes, or is over (at once when Delete is called with no word) and
\* the method returns.
DeleteWord(p) ==
    /\ pc[p] = "delete_loop"
    /\ IF idx[p] <= Len(args[p])
       THEN /\ BadWords' = Remove(BadWords, args[p][idx[p]])
            /\ idx' = [idx EXCEPT ![p] = @ + 1]
            /\ UNCHANGED pc
       ELSE /\ pc' = [pc EXCEPT ![p] = DeferUnlock]
            /\ UNCHANGED <<BadWords, idx>>
    /\ UNCHANGED <<cfg, mutex, op, args, message, ret, err, passes, previous,
                   completed, snapshot>>

\* Lines 216-223: activeWords, in one of the orders of the range.
WordsRange(p) ==
    /\ pc[p] = "words_range"
    /\ \E order \in RangeOrders(BadWords) : ret' = [ret EXCEPT ![p] = order]
    /\ pc' = [pc EXCEPT ![p] = DeferRUnlock]
    /\ UNCHANGED <<BadWords, cfg, mutex, op, args, idx, message, err, passes, previous,
                   completed, snapshot>>

\* -------------------------------------------- the concurrent specification

\* The tokens callers add and delete.
ConcWords == { <<"h", "i">>, Sentinel }

\* The texts callers check.
ConcTexts == { <<"H", "!">>, <<"HALFNOTE">> }

Idle ==
    /\ mutex = FreeMutex
    /\ pc = [p \in Procs |-> "idle"]
    /\ op = [p \in Procs |-> "none"]
    /\ args = [p \in Procs |-> <<>>]
    /\ idx = [p \in Procs |-> 0]
    /\ message = [p \in Procs |-> <<>>]
    /\ ret = [p \in Procs |-> <<>>]
    /\ err = [p \in Procs |-> FALSE]
    /\ passes = [p \in Procs |-> 0]
    /\ previous = [p \in Procs |-> <<>>]
    /\ snapshot = [p \in Procs |-> {}]

\* A filter fresh from NewSwearFilter.
Init ==
    /\ \E bypass \in BOOLEAN, uhohwords \in SeqsOf(ConcWords, 0, 1) :
         LET filter == NewSwearFilter(bypass, uhohwords)
         IN  /\ cfg = filter.config
             /\ BadWords = filter.BadWords
             /\ completed = filter.BadWords
    /\ Idle

CallCheck(p) == \E msg \in ConcTexts : Call(p, "Check", msg, "rlock")

CallWords(p) == Call(p, "Words", <<>>, "rlock")

\* Add is variadic: a call carries any number of words, none included.
CallAdd(p) == \E badWords \in SeqsOf(ConcWords, 0, MaxArgs) : Call(p, "Add", badWords, "lock")

CallDelete(p) ==
    \E badWords \in SeqsOf(ConcWords, 0, MaxArgs) : Call(p, "Delete", badWords, "lock")

Step(p) ==
    \/ RLock(p) \/ RLockResume(p) \/ RUnlock(p)
    \/ LockStart(p) \/ LockAcquire(p) \/ Unlock(p)
    \/ CheckEmpty(p) \/ LeetMulti(p) \/ LeetSingle(p) \/ LeetAmbiguous(p)
    \/ Fold(p) \/ Tabs(p) \/ ZeroWidth(p) \/ Whitespace(p) \/ MatchWords(p)
    \/ AddWord(p) \/ DeleteWord(p) \/ WordsRange(p)
    \/ Return(p)

Next ==
    \E p \in Procs :
        \/ CallCheck(p) \/ CallWords(p) \/ CallAdd(p) \/ CallDelete(p)
        \/ Step(p)

Spec == Init /\ [][Next]_vars

\* Under fair scheduling every step of a call is taken in the end (a caller
\* has one step enabled at most, the one at its position).  Lock
\* queues its callers (sync.Mutex hands the lock to a starving waiter), so a
\* writer that keeps finding another writer ahead of it gets its turn.
Fairness ==
    \A p \in Procs :
        /\ SF_vars(LockStart(p))
        /\ WF_vars(RLock(p)) /\ WF_vars(RLockResume(p)) /\ WF_vars(RUnlock(p))
        /\ WF_vars(LockAcquire(p)) /\ WF_vars(Unlock(p))
        /\ WF_vars(CheckEmpty(p)) /\ WF_vars(LeetMulti(p)) /\ WF_vars(LeetSingle(p))
        /\ WF_vars(LeetAmbiguous(p)) /\ WF_vars(Fold(p)) /\ WF_vars(Tabs(p))
        /\ WF_vars(ZeroWidth(p)) /\ WF_vars(Whitespace(p)) /\ WF_vars(MatchWords(p))
        /\ WF_vars(AddWord(p)) /\ WF_vars(DeleteWord(p)) /\ WF_vars(WordsRange(p))
        /\ WF_vars(Return(p))

SpecFair == Spec /\ Fairness

\* ------------------------------------------ one caller: the Check pipeline

\* The single caller of the sequential specifications.
Caller == 1

\* The order of a map literal.
Literal(table) == Rotation(Len(table), 0, FALSE)

\* The default options, each option alone, and all of them together.
CheckConfigs ==
    { c \in Configs :
        \/ Cardinality({ f \in DOMAIN c : c[f] }) <= 1
        \/ \A f \in DOMAIN c : c[f] }

CheckAlphabet == { "L", "i", " ", "TAB", "ZWSP", "E_GRAVE" }

CheckWordSets ==
    { {}, { <<"l", "i">>, Sentinel, <<"e">> } }

InitCheck ==
    /\ cfg \in CheckConfigs
    /\ BadWords \in CheckWordSets
    /\ completed = BadWords
    /\ Idle

CallCheckText == \E msg \in SeqsOf(CheckAlphabet, 0, MaxLen) : Call(Caller, "Check", msg, "rlock")

NextCheck ==
    \/ CallCheckText
    \/ RLock(Caller) \/ CheckEmpty(Caller)
    \/ LeetMulti(Caller) \/ LeetSingle(Caller) \/ LeetAmbiguous(Caller)
    \/ Fold(Caller) \/ Tabs(Caller) \/ ZeroWidth(Caller) \/ Whitespace(Caller)
    \/ MatchWords(Caller) \/ RUnlock(Caller)

SpecCheck == InitCheck /\ [][NextCheck]_vars

\* ------------------------------------ one caller: obfuscated banned words

EvasionAlphabet == { "j", "l", "3", "!", "|", " ", "E_GRAVE" }

EvasionWordSets ==
    { { <<"j">> }, { <<"l", "e">> }, { <<"l", "i">> }, { <<"i", " ">>, <<"l", " ">> } }

InitEvasion ==
    /\ cfg \in { DefaultConfig, [DefaultConfig EXCEPT !.EnableSpacedBypass = TRUE] }
    /\ BadWords \in EvasionWordSets
    /\ completed = BadWords
    /\ Idle

CallCheckEvasion ==
    \E msg \in SeqsOf(EvasionAlphabet, 0, MaxLen) : Call(Caller, "Check", msg, "rlock")

NextEvasion ==
    \/ CallCheckEvasion
    \/ RLock(Caller) \/ CheckEmpty(Caller)
    \/ LeetMulti(Caller) \/ LeetSingle(Caller) \/ LeetAmbiguous(Caller)
    \/ Fold(Caller) \/ Tabs(Caller) \/ ZeroWidth(Caller) \/ Whitespace(Caller)
    \/ MatchWords(Caller) \/ RUnlock(Caller)

SpecEvasion == InitEvasion /\ [][NextEvasion]_vars

\* ------------------------------------------- one caller: whitespace runs

WsAlphabet == { "a", "b", " ", "TAB" }

WsConfigs ==
    { c \in CheckConfigs : ~c.DisableMultiWhitespaceStripping }

InitWs ==
    /\ cfg \in WsConfigs
    /\ BadWords = { <<"a", "b">> }
    /\ completed = BadWords
    /\ Idle

CallCheckWs ==
    \E msg \in SeqsOf(WsAlphabet, 0, MaxWsLen) : Call(Caller, "Check", msg, "rlock")

NextWs ==
    \/ CallCheckWs
    \/ RLock(Caller) \/ CheckEmpty(Caller)
    \/ LeetMulti(Caller) \/ LeetSingle(Caller) \/ LeetAmbiguous(Caller)
    \/ Fold(Caller) \/ Tabs(Caller) \/ ZeroWidth(Caller) \/ Whitespace(Caller)
    \/ MatchWords(Caller) \/ RUnlock(Caller)

SpecWs == InitWs /\ [][NextWs]_vars

\* --------------------------------- normalizeLeetSpeak, run on its own output

LeetAlphabet == { "P", "h", "#", "v", "u", "3", "!", "|", "<" }

InitLeet ==
    /\ cfg = DefaultConfig
    /\ BadWords = {}
    /\ completed = {}
    /\ Idle

\* filter.normalizeLeetSpeak(message)
CallLeet ==
    /\ pc[Caller] = "idle"
    /\ \E msg \in SeqsOf(LeetAlphabet, 0, MaxLeetLen) :
         /\ args' = [args EXCEPT ![Caller] = msg]
         /\ message' = [message EXCEPT ![Caller] = msg]
    /\ op' = [op EXCEPT ![Caller] = "Leet"]
    /\ pc' = [pc EXCEPT ![Caller] = "leet_multi"]
    /\ UNCHANGED <<BadWords, cfg, mutex, idx, ret, err, passes, previous,
                   completed, snapshot>>

\* filter.normalizeLeetSpeak on what the run before returned.
Rerun ==
    /\ pc[Caller] = "leet_done"
    /\ passes[Caller] < 2
    /\ previous' = [previous EXCEPT ![Caller] = message[Caller]]
    /\ pc' = [pc EXCEPT ![Caller] = "leet_multi"]
    /\ UNCHANGED <<BadWords, cfg, mutex, op, args, idx, message, ret, err, passes,
                   completed, snapshot>>

NextLeet ==
    \/ CallLeet
    \/ LeetMulti(Caller) \/ LeetSingle(Caller) \/ LeetAmbiguous(Caller)
    \/ Rerun

SpecLeet == InitLeet /\ [][NextLeet]_vars

\* ------------------------------------------------------------ properties

\* The elements of a sequence.
Range(seq) == { seq[k] : k \in 1..Len(seq) }

NoDuplicates(seq) == \A j, k \in 1..Len(seq) : seq[j] = seq[k] => j = k

\* The caller's Check has returned (its results are in ret and err).
Checked(p) == pc[p] = "done" /\ op[p] = "Check"

\* The non-sentinel tokens of the set words that are substrings of the text,
\* or, with the spaced bypass, of the text without its spaces.
ContainedTokens(text, words, spacedBypass) ==
    { w \in words \ {Sentinel} :
        \/ Contains(text, w)
        \/ spacedBypass /\ Contains(ReplaceAll(text, <<" ">>, <<>>), w) }

\* C1: when Check returns without an error, its result holds exactly once
\* each non-sentinel banned token that is a substring of the normalized text
\* or, only with the spaced bypass enabled, of the normalized text without
\* its spaces, and no other non-sentinel token.
C1_ResultIsTheContainedTokens ==
    \A p \in Procs :
        Checked(p) /\ ~err[p] =>
            /\ Range(ret[p]) \ {Sentinel}
                   = ContainedTokens(message[p], BadWords, cfg.EnableSpacedBypass)
            /\ NoDuplicates(ret[p])

\* A token tripped only through the spaced bypass.
C1_Witness ==
    /\ Checked(Caller) /\ cfg.EnableSpacedBypass
    /\ args[Caller] = <<"L", " ", "i">>
    /\ ~Contains(message[Caller], <<"l", "i">>)
    /\ <<"l", "i">> \in Range(ret[Caller])

\* C4: Check returns the sentinel exactly when the sentinel is banned and the
\* normalized text is empty; under the default options a text of spaces, tabs
\* and zero-width spaces trips it.
C4_SentinelIffEmptyText ==
    \A p \in Procs :
        Checked(p) /\ ~err[p] =>
            /\ Sentinel \in Range(ret[p]) <=> (Sentinel \in BadWords /\ message[p] = <<>>)
            /\ ( /\ cfg = DefaultConfig
                 /\ Sentinel \in BadWords
                 /\ Range(args[p]) \subseteq {" ", "TAB", "ZWSP"} )
               => Sentinel \in Range(ret[p])

C4_Witness ==
    /\ Checked(Caller) /\ cfg = DefaultConfig
    /\ args[Caller] = <<" ", "TAB", "ZWSP">>
    /\ Sentinel \in Range(ret[Caller])

\* A word of lower-case letters.
LowercaseWord(w) == Len(w) > 0 /\ Range(w) \subseteq Range(LowerLetters)

\* The symbol stands for the letter in the single-character table or in the
\* ambiguous map.
LeetSymbolFor(symbol, letter) ==
    \/ \E k \in 1..Len(leetChars) :
         leetChars[k][1] = <<symbol>> /\ leetChars[k][2] = <<letter>>
    \/ \E k \in 1..Len(ambiguousLeetMap) :
         /\ ambiguousLeetMap[k][1] = <<symbol>>
         /\ <<letter>> \in Range(ambiguousLeetMap[k][2])

\* The text is the word with none, some or all of its letters replaced by a
\* leet symbol for the letter.
LeetSpelling(text, w) ==
    /\ Len(text) = Len(w)
    /\ \A k \in 1..Len(w) : text[k] = w[k] \/ LeetSymbolFor(text[k], w[k])

\* C5: under the default options Check returns every banned word of
\* lower-case letters of which the text is a leet spelling.
C5_LeetSpellingsTrip ==
    \A p \in Procs :
        Checked(p) /\ cfg = DefaultConfig =>
            \A w \in BadWords :
                LowercaseWord(w) /\ LeetSpelling(args[p], w) => w \in Range(ret[p])

\* The text after the multi-character and the single-character substitutions.
Substituted(text) ==
    ReplaceSingle(ReplaceMulti(ToLower(text), Literal(multiCharLeet)), Literal(leetChars))

AmbiguousSymbols == { ambiguousLeetMap[k][1] : k \in 1..Len(ambiguousLeetMap) }

\* The interpretations of the ambiguous symbols still in the text.
InterpretationsOf(text) ==
    UNION { Range(Interpretations(text, ambiguousLeetMap[k])) :
              k \in { j \in 1..Len(ambiguousLeetMap) :
                        Contains(text, ambiguousLeetMap[j][1]) } }

\* The stages after the leet stage, run on a text.
RemainingStages(text) ==
    CheckMessage(text, [cfg EXCEPT !.DisableLeetSpeak = TRUE],
                 Literal(multiCharLeet), Literal(leetChars), Literal(ambiguousLeetMap))

\* C6: Check returns every non-sentinel banned token contained in an
\* interpretation of an ambiguous symbol of the substituted text, the
\* interpretation taken through the remaining stages; and with no ambiguous
\* symbol the normalizer returns the substituted text unchanged.
C6_InterpretationsTrip ==
    \A p \in Procs :
        /\ Checked(p) /\ ~err[p] /\ ~cfg.DisableLeetSpeak /\ BadWords # {} =>
             \A x \in InterpretationsOf(Substituted(args[p])) :
                 ~RemainingStages(x).err =>
                     \A w \in BadWords \ {Sentinel} :
                         Contains(RemainingStages(x).message, w) => w \in Range(ret[p])
        /\ ( /\ pc[p] = "fold" /\ op[p] = "Check" /\ ~cfg.DisableLeetSpeak
             /\ \A s \in AmbiguousSymbols : ~Contains(Substituted(args[p]), s) )
           => message[p] = Substituted(args[p])

\* C7: the tokens Check returns are those it returns when the three tables
\* are ranged over in the order of their literals, whatever the order of the
\* ranges of the run.
C7_ResultIndependentOfOrder ==
    \A p \in Procs :
        Checked(p) /\ ~err[p] =>
            Range(ret[p]) = CheckTripped(args[p], cfg, BadWords, Literal(multiCharLeet),
                                         Literal(leetChars), Literal(ambiguousLeetMap))

\* C10: when the output of normalizeLeetSpeak holds no ambiguous symbol,
\* normalizeLeetSpeak leaves that output unchanged.
C10_LeetIdempotent ==
    \A p \in Procs :
        ( /\ pc[p] = "leet_done" /\ passes[p] = 2
          /\ \A s \in AmbiguousSymbols : ~Contains(previous[p], s) )
        => message[p] = previous[p]

\* The characters of the text the whitespace stage keeps: every character
\* that is not whitespace, and every whitespace character that stands alone
\* between two characters that are not.
KeptByWhitespaceStage(text) ==
    LET keep(k) ==
            \/ ~IsWhitespace(text[k])
            \/ /\ 1 < k /\ k < Len(text)
               /\ ~IsWhitespace(text[k - 1]) /\ ~IsWhitespace(text[k + 1])
        kept == { k \in 1..Len(text) : keep(k) }
        \* the position of the j-th kept character
        at(j) == CHOOSE k \in kept : Cardinality({ i \in kept : i <= k }) = j
    IN  [j \in 1..Cardinality(kept) |-> text[at(j)]]

\* The text neither starts nor ends with whitespace and holds no two
\* whitespace characters in a row.
WhitespaceCollapsed(text) ==
    /\ Len(text) > 0 => ~IsWhitespace(text[1]) /\ ~IsWhitespace(text[Len(text)])
    /\ \A k \in 1..(Len(text) - 1) : ~(IsWhitespace(text[k]) /\ IsWhitespace(text[k + 1]))

\* C9: with whitespace collapsing enabled the whitespace stage deletes the
\* leading and the trailing run of whitespace and every inner run of two or
\* more, and keeps each single inner whitespace character; so the normalized
\* text neither starts nor ends with whitespace nor holds two in a row.
C9_WhitespaceRunsDeleted ==
    /\ [][ \A p \in Procs :
             ( /\ pc[p] = "whitespace" /\ pc'[p] = "match"
               /\ ~cfg.DisableMultiWhitespaceStripping )
             => message'[p] = KeptByWhitespaceStage(message[p]) ]_vars
    /\ [](\A p \in Procs :
             ( /\ pc[p] \in {"match", "runlock", "done"} /\ op[p] = "Check" /\ ~err[p]
               /\ snapshot[p] # {}
               /\ ~cfg.DisableMultiWhitespaceStripping )
             => WhitespaceCollapsed(message[p]))

\* Two words two spaces apart are fused; a single space stays.
C9_Witness ==
    /\ Checked(Caller) /\ cfg = DefaultConfig
    /\ args[Caller] = <<"a", " ", " ", "b">>
    /\ message[Caller] = <<"a", "b">>
    /\ ret[Caller] = << <<"a", "b">> >>

\* The caller is between the return of its RLock and its RUnlock.
Reading(p) ==
    /\ op[p] \in {"Check", "Words"}
    /\ pc[p] \notin {"idle", "rlock", "rwait", "done"}

\* The caller is between the return of its Lock and its Unlock.
Writing(p) == pc[p] \in {"add_loop", "delete_loop", "unlock"}

\* C2: no caller reads the token set while another inserts or deletes; two
\* callers never insert or delete at once; outside a writer's critical
\* section the token set is what the completed Add and Delete calls make, so
\* none is lost; and a reader sees, from its RLock to its RUnlock, the one
\* set the completed calls had made, against which Check computes its result.
C2_ReadersSeeCompletedMutations ==
    /\ \A p, q \in Procs : p # q /\ Writing(p) => ~Reading(q) /\ ~Writing(q)
    /\ (\A p \in Procs : ~Writing(p)) => BadWords = completed
    /\ \A p \in Procs :
         Reading(p) => BadWords = snapshot[p] /\ snapshot[p] = completed
    /\ \A p \in Procs :
         pc[p] = "runlock" /\ op[p] = "Check" /\ ~err[p] /\ snapshot[p] # {} =>
             Range(ret[p]) \ {Sentinel}
                 = ContainedTokens(message[p], snapshot[p], cfg.EnableSpacedBypass)

\* A Check waits for its read lock while an Add is halfway through its words.
C2_Witness ==
    \E p, q \in Procs :
        /\ pc[p] = "add_loop" /\ idx[p] = 2 /\ BadWords # completed
        /\ pc[q] = "rwait" /\ op[q] = "Check"

\* C3: Words returns the tokens inserted, by NewSwearFilter or Add, and not
\* deleted since, and no other; an Add of tokens that are all present and a
\* Delete of tokens that are all absent leave the set as it was.
C3_WordsAreTheInsertedTokens ==
    \A p \in Procs :
        /\ pc[p] \in {"runlock", "done"} /\ op[p] = "Words" =>
               Range(ret[p]) = snapshot[p] /\ NoDuplicates(ret[p])
        /\ Reading(p) => snapshot[p] = completed
        /\ pc[p] = "unlock" /\ op[p] = "Add" /\ Range(args[p]) \subseteq completed =>
               BadWords = completed
        /\ pc[p] = "unlock" /\ op[p] = "Delete" /\ Range(args[p]) \cap completed = {} =>
               BadWords = completed
        /\ pc[p] = "unlock" => BadWords = Effect(op[p], args[p], completed)

\* Words returns two tokens: one at least came in by an Add.
C3_Witness ==
    \E p \in Procs : pc[p] = "done" /\ op[p] = "Words" /\ Len(ret[p]) = 2

\* The caller holds or awaits the mutex.
OnMutex(p) == p \in mutex.readers \/ p \in mutex.waiting \/ mutex.writer = p

\* C8: every call that starts returns, and a call that has returned has
\* released its lock, whatever its return path.
C8_CallsReturnUnlocked ==
    /\ [](\A p \in Procs : pc[p] \in {"idle", "done"} => ~OnMutex(p))
    /\ \A p \in Procs : (pc[p] # "idle") ~> (pc[p] = "done")

\* One Check has returned the error of the fold, another has returned early
\* on the empty token set.
C8_Witness ==
    \E p, q \in Procs :
        /\ pc[p] = "done" /\ op[p] = "Check" /\ err[p]
        /\ pc[q] = "done" /\ op[q] = "Check" /\ ~err[q] /\ snapshot[q] = {}
        /\ mutex = FreeMutex

=============================================================================
